---------------------------- MODULE Spec2Model ----------------------------
(***************************************************************************)
(* The postMessage transport core of the Rocky.js phone-side library       *)
(* (src/unnamed/part_002): the Sender (control and object queues, chunking *)
(* and retry), the ChunkReceiver (reassembly) and the session Control      *)
(* state machine, driven by the app (postMessage), by LowerTransport       *)
(* (ready, appmessage, send callbacks) and by the 1000 ms retry timers.    *)
(*                                                                         *)
(* Every handler of the source runs to completion on one thread, so each   *)
(* action below is one whole handler.  The handlers are written as         *)
(* operators that map a record of the program's fields to the record after *)
(* the call, which lets a handler call the next one as the source does.    *)
(***************************************************************************)
EXTENDS Naturals, Integers, Sequences, FiniteSets, TLC

(***************************************************************************)
(* Bounds of the model.                                                    *)
(***************************************************************************)
MaxCtlQueue == 2      \* inputs that enqueue a control message need room
MaxObjQueue == 1      \* postMessage is taken while object_queue is shorter
MaxSendQueue == 2     \* the same, in the specification of the Sender alone
MaxChunkN == 3        \* the largest total size or offset in an inbound chunk header
MaxTxChunk == 3       \* the largest tx_chunk_size of the remote Sender
MaxRegs == 3          \* on() is taken while fewer handlers have been registered

(***************************************************************************)
(* Names of the source.                                                    *)
(***************************************************************************)
ControlStateDisconnected == "ControlStateDisconnected"
ControlStateAwaitingResetCompleteRemoteInitiated == "ControlStateAwaitingResetCompleteRemoteInitiated"
ControlStateAwaitingResetCompleteLocalInitiated == "ControlStateAwaitingResetCompleteLocalInitiated"
ControlStateSessionOpen == "ControlStateSessionOpen"

ControlStates ==
  { ControlStateDisconnected, ControlStateAwaitingResetCompleteRemoteInitiated,
    ControlStateAwaitingResetCompleteLocalInitiated, ControlStateSessionOpen }

ControlKeyResetRequest == "ControlKeyResetRequest"
ControlKeyResetComplete == "ControlKeyResetComplete"
ControlKeyChunk == "ControlKeyChunk"
ControlKeyUnsupportedError == "ControlKeyUnsupportedError"

PROTOCOL ==
  [ min_version |-> 1, max_version |-> 1,
    max_tx_chunk_size |-> 1000, max_rx_chunk_size |-> 1000 ]

RetryLimit == 3

Min(a, b) == IF a < b THEN a ELSE b

(***************************************************************************)
(* Wire values.  A payload is a dictionary with one key; data is its value *)
(* (a byte array for ResetComplete and Chunk, the number 0 otherwise).     *)
(***************************************************************************)
Msg(k, d) == [key |-> k, data |-> d]

\* _controlSendResetComplete: the six bytes of a Uint8Array (stores are mod 256)
ResetCompleteBytes ==
  << PROTOCOL.min_version % 256,
     PROTOCOL.max_version % 256,
     (PROTOCOL.max_tx_chunk_size \div 256) % 256,
     PROTOCOL.max_tx_chunk_size % 256,
     (PROTOCOL.max_rx_chunk_size \div 256) % 256,
     PROTOCOL.max_rx_chunk_size % 256 >>

LocalResetComplete == Msg(ControlKeyResetComplete, ResetCompleteBytes)
ResetRequestMsg == Msg(ControlKeyResetRequest, <<0>>)
UnsupportedErrorMsg == Msg(ControlKeyUnsupportedError, <<0>>)

\* _unpackResetCompleteMessage
UnpackResetCompleteMessage(data) ==
  [ min_version |-> data[1],
    max_version |-> data[2],
    max_tx_chunk_size |-> data[3] * 256 + data[4],
    max_rx_chunk_size |-> data[5] * 256 + data[6] ]

ZeroProtocol == [version |-> 0, tx_chunk_size |-> 0, rx_chunk_size |-> 0]

\* the test of _remoteProtocolValidateAndSet (the fields of a 6-byte value are defined)
RemoteProtocolValid(remote) ==
  ~ (remote.min_version > PROTOCOL.max_version \/ remote.max_version < PROTOCOL.min_version)

\* the assignment with the remote's tx and rx sizes taken the wrong way round
RemoteProtocolSet_Swapped(remote) ==
  [ version |-> Min(remote.max_version, PROTOCOL.max_version),
    tx_chunk_size |-> Min(remote.max_tx_chunk_size, PROTOCOL.max_tx_chunk_size),
    rx_chunk_size |-> Min(remote.max_rx_chunk_size, PROTOCOL.max_rx_chunk_size) ]

\* the assignment of _remoteProtocolValidateAndSet
RemoteProtocolSet(remote) ==
  [ version |-> Min(remote.max_version, PROTOCOL.max_version),
    tx_chunk_size |-> Min(remote.max_rx_chunk_size, PROTOCOL.max_tx_chunk_size),
    rx_chunk_size |-> Min(remote.max_tx_chunk_size, PROTOCOL.max_rx_chunk_size) ]

(***************************************************************************)
(* Objects.  The app posts JSON numbers; JSON.stringify gives their        *)
(* decimal digits, utf8.encode leaves ASCII alone, and a 0 byte is pushed. *)
(***************************************************************************)
RECURSIVE Stringify(_)
Stringify(n) ==
  IF n < 10 THEN << 48 + n >> ELSE Append(Stringify(n \div 10), 48 + (n % 10))

\* the objects the app posts: 2 and 3 bytes with the terminator
Objects == { 1, 12 }

\* JSON.parse of ASCII text: <<v>> for a number without a leading zero,
\* <<>> when it throws (empty text, or a character that is not a digit)
RECURSIVE DigitsValue(_)
DigitsValue(str) ==
  IF Len(str) = 0 THEN 0
  ELSE DigitsValue(SubSeq(str, 1, Len(str) - 1)) * 10 + (str[Len(str)] - 48)

JsonParse(str) ==
  IF /\ Len(str) > 0
     /\ \A i \in 1..Len(str) : str[i] \in 48..57
     /\ (Len(str) > 1 => str[1] # 48)
  THEN << DigitsValue(str) >>
  ELSE << >>

\* Sender._createDataObject
CreateDataObject(obj) ==
  [ obj |-> obj, data |-> Append(Stringify(obj), 0), json |-> Stringify(obj) ]

\* the 4-byte header of Sender._trySendNextChunk
ChunkHeader(n, isFirst) ==
  << n % 256,
     (n \div 256) % 256,
     (n \div 65536) % 256,
     ((n \div 16777216) % 128) + (IF isFirst THEN 128 ELSE 0) >>

\* _unpackChunk; Undefined when the value is too short
Undefined == [undefined |-> TRUE]

UnpackChunk(data) ==
  IF Len(data) <= 4 THEN Undefined
  ELSE LET is_first == (data[4] \div 128) % 2 = 1
           num31bits == (data[4] % 128) * 16777216 + data[3] * 65536 + data[2] * 256 + data[1]
       IN  [ is_first |-> is_first, n |-> num31bits, data |-> SubSeq(data, 5, Len(data)) ]

VARIABLES
  controlQueue,        \* Sender.controlQueue
  objectQueue,         \* Sender.objectQueue
  currentMessageType,  \* Sender._currentMessageType ("none" for undefined)
  failureCount,        \* Sender._failureCount
  offsetBytes,         \* Sender._offsetBytes
  chunkPayloadSize,    \* Sender._chunkPayloadSize
  outstanding,         \* sends handed to __Pebble.sendAppMessage, callback not yet run
  timers,              \* pending setTimeout retries: "control" or "object"
  state,               \* _control.state
  protocol,            \* _control.protocol
  utf8_json_string,    \* ChunkReceiver.utf8_json_string
  total_size_bytes,    \* ChunkReceiver.total_size_bytes
  received_size_bytes, \* ChunkReceiver.received_size_bytes
  isReady,             \* LowerTransport has emitted 'ready'
  op,                  \* the handler that ran last, with its input
  handed,              \* what the last handler handed to LowerTransport
  emitted,             \* the events the last handler dispatched
  interrupted,         \* the session was not open at some time since a first chunk was last handed over
  chunkFails,          \* failure callbacks of the chunk now in flight (SpecSend)
  callbacks,           \* parity of the callbacks LowerTransport has made (SpecProgress)
  wire,                \* a sender's chunks on their way to the Receiver (SpecChunks)
  EVENTS,              \* EVENTS: event name -> handlers list and its pos (SpecBus)
  dispatch             \* the _callHandlersForEvent loop in progress (SpecBus)

\* the fields of Sender, ChunkReceiver and _control, and the transport's
\* outstanding sends and timers
progVars ==
  << controlQueue, objectQueue, currentMessageType, failureCount, offsetBytes,
     chunkPayloadSize, outstanding, timers, state, protocol, utf8_json_string,
     total_size_bytes, received_size_bytes, isReady >>

\* the variables of the transport core
coreVars == << progVars, op, handed, emitted, interrupted >>

\* the variables of the listener registry
busVars == << EVENTS, dispatch >>

vars == << coreVars, chunkFails, callbacks, wire, busVars >>

\* the program's fields as one record, at the start of a handler
Cur ==
  [ cq |-> controlQueue, oq |-> objectQueue, cur |-> currentMessageType,
    fc |-> failureCount, off |-> offsetBytes, cps |-> chunkPayloadSize,
    out |-> outstanding, tm |-> timers, st |-> state, proto |-> protocol,
    buf |-> utf8_json_string, total |-> total_size_bytes,
    recv |-> received_size_bytes, handed |-> <<>>, emitted |-> <<>> ]

\* the fields after the handler
Becomes(s) ==
  /\ controlQueue' = s.cq
  /\ objectQueue' = s.oq
  /\ currentMessageType' = s.cur
  /\ failureCount' = s.fc
  /\ offsetBytes' = s.off
  /\ chunkPayloadSize' = s.cps
  /\ outstanding' = s.out
  /\ timers' = s.tm
  /\ state' = s.st
  /\ protocol' = s.proto
  /\ utf8_json_string' = s.buf
  /\ total_size_bytes' = s.total
  /\ received_size_bytes' = s.recv
  /\ handed' = s.handed
  /\ emitted' = s.emitted
  /\ interrupted' =
       IF \E i \in 1..Len(s.handed) :
            s.handed[i].kind = "object" /\ s.handed[i].msg.data[4] >= 128
       THEN FALSE
       ELSE IF s.st # ControlStateSessionOpen THEN TRUE
       ELSE interrupted

(***************************************************************************)
(* Sender                                                                  *)
(***************************************************************************)
\* __Pebble.sendAppMessage(msg, success, failure): one callback will follow
\* (handed also notes how long controlQueue is at that moment)
SendAppMessage(s, item) ==
  [s EXCEPT !.out = Append(@, item),
            !.handed = Append(@, [kind |-> item.kind, msg |-> item.msg,
                                  cq |-> Len(s.cq)])]

\* setTimeout(retry, 1000)
SetTimeout(s, kind) == [s EXCEPT !.tm = Append(@, kind)]

\* _resetCurrent that keeps _offsetBytes
ResetCurrent_KeepsOffset(s) == [s EXCEPT !.cur = "none", !.fc = 0, !.cps = 0]

\* Sender._resetCurrent
ResetCurrent(s) == [s EXCEPT !.cur = "none", !.fc = 0, !.off = 0, !.cps = 0]

\* _getNextMessageType looking at objectQueue first
GetNextMessageType_ObjectFirst(s) ==
  IF Len(s.oq) > 0 THEN "object"
  ELSE IF Len(s.cq) > 0 THEN "control"
  ELSE "none"

GetNextMessageType(s) ==
  IF Len(s.cq) > 0 THEN "control"
  ELSE IF Len(s.oq) > 0 THEN "object"
  ELSE "none"

TrySendNextControl(s) ==
  SendAppMessage(s, [kind |-> "control",
                     msg |-> IF Len(s.cq) > 0 THEN Head(s.cq) ELSE Undefined])

RECURSIVE SendNext(_, _)
RECURSIVE TrySendNextChunk(_, _)

\* Sender.sendObject
SendObject(s, obj, react) ==
  SendNext([s EXCEPT !.oq = Append(@, CreateDataObject(obj))], react)

\* Sender.sendControl
SendControl(s, msg, react) ==
  SendNext([s EXCEPT !.cq = Append(@, msg)], react)

\* _callHandler gives the handlers {type, data}; data is <<>> when absent
Event(type, data) == [type |-> type, data |-> data]

\* _callHandlersForEvent: the app's handlers run inside the dispatch; with
\* react they call Pebble.postMessage while there is room in the model
ReactObj == CHOOSE obj \in Objects : \A o \in Objects : obj <= o

CallHandlersForEvent(s, event_name, callback_data, react) ==
  LET s1 == [s EXCEPT !.emitted = Append(@, Event(event_name, callback_data))]
  IN  IF react /\ Len(s1.oq) < MaxObjQueue
      THEN SendObject(s1, ReactObj, react)
      ELSE s1

\* Sender._completeObject taking the last object of the queue, not the first
CompleteObject_PopsLast(s, failed, react) ==
  LET s1 == ResetCurrent([s EXCEPT !.oq = SubSeq(@, 1, Len(@) - 1)])
  IN  IF failed THEN CallHandlersForEvent(s1, "postmessageerror", JsonParse(s.oq[Len(s.oq)].json), react) ELSE s1

\* Sender._completeObject
CompleteObject(s, failed, react) ==
  LET s1 == ResetCurrent([s EXCEPT !.oq = Tail(@)])
  IN  IF failed THEN CallHandlersForEvent(s1, "postmessageerror", JsonParse(s.oq[1].json), react) ELSE s1

\* Sender._chunkFailure
ChunkFailure(s, react) ==
  LET s1 == [s EXCEPT !.fc = @ + 1]
  IN  IF s1.fc <= RetryLimit
      THEN SetTimeout(s1, "object")
      ELSE SendNext(CompleteObject(s1, TRUE, react), react)

\* _trySendNextChunk without the test of the session
TrySendNextChunk_IgnoresSession(s, react) ==
  IF GetNextMessageType(s) # "object"
  THEN SendNext(ResetCurrent(s), react)
  ELSE LET data == s.oq[1].data
           sizeRemaining == Len(data) - s.off
           size == Min(s.proto.tx_chunk_size, sizeRemaining)
           isFirst == (s.off = 0)
           n == IF isFirst THEN Len(data) ELSE s.off
           chunk == ChunkHeader(n, isFirst) \o SubSeq(data, s.off + 1, s.off + size)
       IN  SendAppMessage([s EXCEPT !.cps = size],
                          [kind |-> "object", msg |-> Msg(ControlKeyChunk, chunk)])

\* _trySendNextChunk writing the total size in every header
TrySendNextChunk_TotalInEveryHeader(s, react) ==
  IF GetNextMessageType(s) # "object"
  THEN SendNext(ResetCurrent(s), react)
  ELSE IF s.st # ControlStateSessionOpen
  THEN ChunkFailure([s EXCEPT !.off = 0], react)
  ELSE LET data == s.oq[1].data
           sizeRemaining == Len(data) - s.off
           size == Min(s.proto.tx_chunk_size, sizeRemaining)
           isFirst == (s.off = 0)
           n == Len(data)
           chunk == ChunkHeader(n, isFirst) \o SubSeq(data, s.off + 1, s.off + size)
       IN  SendAppMessage([s EXCEPT !.cps = size],
                          [kind |-> "object", msg |-> Msg(ControlKeyChunk, chunk)])

\* Sender._trySendNextChunk
TrySendNextChunk(s, react) ==
  IF GetNextMessageType(s) # "object"
  THEN SendNext(ResetCurrent(s), react)
  ELSE IF s.st # ControlStateSessionOpen
  THEN ChunkFailure([s EXCEPT !.off = 0], react)
  ELSE LET data == s.oq[1].data
           sizeRemaining == Len(data) - s.off
           size == Min(s.proto.tx_chunk_size, sizeRemaining)
           isFirst == (s.off = 0)
           n == IF isFirst THEN Len(data) ELSE s.off
           chunk == ChunkHeader(n, isFirst) \o SubSeq(data, s.off + 1, s.off + size)
       IN  SendAppMessage([s EXCEPT !.cps = size],
                          [kind |-> "object", msg |-> Msg(ControlKeyChunk, chunk)])

\* _sendNext without the test for a message in flight
SendNext_NoInFlightTest(s, react) ==
  LET type == GetNextMessageType(s)
  IN  IF type = "none" THEN s
      ELSE IF type = "control"
      THEN TrySendNextControl([s EXCEPT !.cur = type])
      ELSE TrySendNextChunk([s EXCEPT !.cur = type], react)

\* Sender._sendNext
SendNext(s, react) ==
  IF s.cur # "none" THEN s
  ELSE LET type == GetNextMessageType(s)
       IN  IF type = "none" THEN s
           ELSE IF type = "control"
           THEN TrySendNextControl([s EXCEPT !.cur = type])
           ELSE TrySendNextChunk([s EXCEPT !.cur = type], react)

\* _chunkSuccess completing the object one byte early
ChunkSuccess_CompletesEarly(s, react) ==
  LET s1 == [s EXCEPT !.off = @ + s.cps]
  IN  IF s1.off + 1 >= Len(s1.oq[1].data)
      THEN SendNext(CompleteObject(s1, FALSE, react), react)
      ELSE TrySendNextChunk(s1, react)

\* Sender._chunkSuccess
ChunkSuccess(s, react) ==
  LET s1 == [s EXCEPT !.off = @ + s.cps]
  IN  IF s1.off = Len(s1.oq[1].data)
      THEN SendNext(CompleteObject(s1, FALSE, react), react)
      ELSE TrySendNextChunk(s1, react)

(***************************************************************************)
(* Control                                                                 *)
(***************************************************************************)
\* _control.resetProtocol
ResetProtocol(s) == [s EXCEPT !.proto = ZeroProtocol]

\* ControlTransitions.ControlStateDisconnected
TransitionDisconnected(s, from_state, react) ==
  [ResetProtocol(s) EXCEPT !.st = ControlStateAwaitingResetCompleteRemoteInitiated]

\* ControlTransitions.ControlStateAwaitingResetCompleteRemoteInitiated
TransitionRemoteInitiated(s, from_state, react) ==
  SendControl([ResetProtocol(s) EXCEPT !.st = ControlStateAwaitingResetCompleteRemoteInitiated],
              LocalResetComplete, react)

\* the transition to LI sending a ResetRequest from every state
TransitionLocalInitiated_AlwaysRequests(s, from_state, react) ==
  [ResetProtocol(SendControl(s, ResetRequestMsg, react))
     EXCEPT !.st = ControlStateAwaitingResetCompleteLocalInitiated]

\* the transition to LI without resetProtocol
TransitionLocalInitiated_NoReset(s, from_state, react) ==
  LET s1 == IF from_state # ControlStateAwaitingResetCompleteLocalInitiated
            THEN SendControl(s, ResetRequestMsg, react)
            ELSE s
  IN  [s1 EXCEPT !.st = ControlStateAwaitingResetCompleteLocalInitiated]

\* ControlTransitions.ControlStateAwaitingResetCompleteLocalInitiated
TransitionLocalInitiated(s, from_state, react) ==
  LET s1 == IF from_state # ControlStateAwaitingResetCompleteLocalInitiated
            THEN SendControl(s, ResetRequestMsg, react)
            ELSE s
  IN  [ResetProtocol(s1) EXCEPT !.st = ControlStateAwaitingResetCompleteLocalInitiated]

\* ControlTransitions.ControlStateSessionOpen
TransitionSessionOpen(s, from_state, react) ==
  CallHandlersForEvent([s EXCEPT !.st = ControlStateSessionOpen],
                       "postmessageconnected", << >>, react)

\* _control.enter without the test of prev_state
Enter_AnyPrevState(s, to_state, react) ==
  LET s1 == CASE to_state = ControlStateDisconnected ->
                   TransitionDisconnected(s, s.st, react)
              [] to_state = ControlStateAwaitingResetCompleteRemoteInitiated ->
                   TransitionRemoteInitiated(s, s.st, react)
              [] to_state = ControlStateAwaitingResetCompleteLocalInitiated ->
                   TransitionLocalInitiated(s, s.st, react)
              [] to_state = ControlStateSessionOpen ->
                   TransitionSessionOpen(s, s.st, react)
  IN  IF to_state # ControlStateSessionOpen
      THEN CallHandlersForEvent(s1, "postmessagedisconnected", << >>, react)
      ELSE s1

\* _control.enter
Enter(s, to_state, react) ==
  LET prev_state == s.st
      s1 == CASE to_state = ControlStateDisconnected ->
                   TransitionDisconnected(s, s.st, react)
              [] to_state = ControlStateAwaitingResetCompleteRemoteInitiated ->
                   TransitionRemoteInitiated(s, s.st, react)
              [] to_state = ControlStateAwaitingResetCompleteLocalInitiated ->
                   TransitionLocalInitiated(s, s.st, react)
              [] to_state = ControlStateSessionOpen ->
                   TransitionSessionOpen(s, s.st, react)
  IN  IF prev_state = ControlStateSessionOpen /\ to_state # ControlStateSessionOpen
      THEN CallHandlersForEvent(s1, "postmessagedisconnected", << >>, react)
      ELSE s1

\* Sender._controlSuccess
ControlSuccess(s, react) ==
  SendNext(ResetCurrent([s EXCEPT !.cq = Tail(@)]), react)

\* _controlFailure clearing the in-flight fields while the retry waits
ControlFailure_ClearsOnRetry(s, react) ==
  LET s1 == [s EXCEPT !.fc = @ + 1]
  IN  IF s1.fc <= RetryLimit
      THEN SetTimeout(ResetCurrent(s1), "control")
      ELSE SendNext(Enter(ResetCurrent([s1 EXCEPT !.cq = Tail(@)]),
                          ControlStateDisconnected, react), react)

\* Sender._controlFailure
ControlFailure(s, react) ==
  LET s1 == [s EXCEPT !.fc = @ + 1]
  IN  IF s1.fc <= RetryLimit
      THEN SetTimeout(s1, "control")
      ELSE SendNext(Enter(ResetCurrent([s1 EXCEPT !.cq = Tail(@)]),
                          ControlStateDisconnected, react), react)

(***************************************************************************)
(* Receiver                                                                *)
(***************************************************************************)
\* handleChunkReceived without the test of offset_bytes
HandleChunkReceived_NoOffsetTest(s, chunk, react) ==
  IF chunk = Undefined THEN [s |-> s, ok |-> FALSE]
  ELSE LET isExpectingFirst == (Len(s.buf) = 0)
       IN
       IF chunk.is_first # isExpectingFirst THEN [s |-> s, ok |-> FALSE]
       ELSE IF ~chunk.is_first /\ s.recv + Len(chunk.data) > s.total
       THEN [s |-> s, ok |-> FALSE]
       ELSE LET total == IF chunk.is_first THEN chunk.n ELSE s.total
                recv0 == IF chunk.is_first THEN 0 ELSE s.recv
                recv == recv0 + Len(chunk.data)
                isLastChunk == (recv = total)
                isLastChunkZeroTerminated == (chunk.data[Len(chunk.data)] = 0)
                end == IF isLastChunk THEN Len(chunk.data) - 1 ELSE Len(chunk.data)
                str == s.buf \o SubSeq(chunk.data, 1, end)
                s1 == [s EXCEPT !.total = total, !.recv = recv, !.buf = str]
            IN  IF ~isLastChunk THEN [s |-> s1, ok |-> TRUE]
                ELSE LET s2 == IF isLastChunkZeroTerminated /\ JsonParse(str) # << >>
                               THEN CallHandlersForEvent(
                                      s1, "message", JsonParse(str), react)
                               ELSE s1
                     IN  [s |-> [s2 EXCEPT !.buf = << >>], ok |-> TRUE]

\* ChunkReceiver.handleChunkReceived: the fields after the call and its result
HandleChunkReceived(s, chunk, react) ==
  IF chunk = Undefined THEN [s |-> s, ok |-> FALSE]
  ELSE LET isExpectingFirst == (Len(s.buf) = 0)
       IN
       IF chunk.is_first # isExpectingFirst THEN [s |-> s, ok |-> FALSE]
       ELSE IF ~chunk.is_first /\ s.recv # chunk.n THEN [s |-> s, ok |-> FALSE]
       ELSE IF ~chunk.is_first /\ s.recv + Len(chunk.data) > s.total
       THEN [s |-> s, ok |-> FALSE]
       ELSE LET total == IF chunk.is_first THEN chunk.n ELSE s.total
                recv0 == IF chunk.is_first THEN 0 ELSE s.recv
                recv == recv0 + Len(chunk.data)
                isLastChunk == (recv = total)
                isLastChunkZeroTerminated == (chunk.data[Len(chunk.data)] = 0)
                end == IF isLastChunk THEN Len(chunk.data) - 1 ELSE Len(chunk.data)
                str == s.buf \o SubSeq(chunk.data, 1, end)
                s1 == [s EXCEPT !.total = total, !.recv = recv, !.buf = str]
            IN  IF ~isLastChunk THEN [s |-> s1, ok |-> TRUE]
                ELSE LET s2 == IF isLastChunkZeroTerminated /\ JsonParse(str) # << >>
                               THEN CallHandlersForEvent(
                                      s1, "message", JsonParse(str), react)
                               ELSE s1
                     IN  [s |-> [s2 EXCEPT !.buf = << >>], ok |-> TRUE]

(***************************************************************************)
(* ControlHandlers                                                         *)
(***************************************************************************)
\* ControlHandlers.ControlStateAwaitingResetCompleteRemoteInitiated
HandleRemoteInitiated(s, payload, react) ==
  IF payload.key = ControlKeyResetComplete
  THEN LET remote == UnpackResetCompleteMessage(payload.data)
       IN  IF RemoteProtocolValid(remote)
           THEN Enter([s EXCEPT !.proto = RemoteProtocolSet(remote)],
                      ControlStateSessionOpen, react)
           ELSE s
  ELSE IF payload.key = ControlKeyResetRequest
  THEN Enter(s, ControlStateAwaitingResetCompleteRemoteInitiated, react)
  ELSE IF payload.key = ControlKeyChunk
  THEN Enter(s, ControlStateAwaitingResetCompleteLocalInitiated, react)
  ELSE s   \* UnsupportedError: throws, no field changes

\* the LI handler opening the session without sending ResetComplete
HandleLocalInitiated_NoResetComplete(s, payload, react) ==
  IF payload.key = ControlKeyResetComplete
  THEN LET remote == UnpackResetCompleteMessage(payload.data)
       IN  IF RemoteProtocolValid(remote)
           THEN Enter([s EXCEPT !.proto = RemoteProtocolSet(remote)],
                      ControlStateSessionOpen, react)
           ELSE SendControl(s, UnsupportedErrorMsg, react)
  ELSE s

\* the LI handler dropping an unsupported ResetComplete without a reply
HandleLocalInitiated_NoUnsupportedError(s, payload, react) ==
  IF payload.key = ControlKeyResetComplete
  THEN LET remote == UnpackResetCompleteMessage(payload.data)
       IN  IF RemoteProtocolValid(remote)
           THEN Enter(SendControl([s EXCEPT !.proto = RemoteProtocolSet(remote)],
                                  LocalResetComplete, react),
                      ControlStateSessionOpen, react)
           ELSE s
  ELSE s

\* ControlHandlers.ControlStateAwaitingResetCompleteLocalInitiated
HandleLocalInitiated(s, payload, react) ==
  IF payload.key = ControlKeyResetComplete
  THEN LET remote == UnpackResetCompleteMessage(payload.data)
       IN  IF RemoteProtocolValid(remote)
           THEN Enter(SendControl([s EXCEPT !.proto = RemoteProtocolSet(remote)],
                                  LocalResetComplete, react),
                      ControlStateSessionOpen, react)
           ELSE SendControl(s, UnsupportedErrorMsg, react)
  ELSE s

\* the SessionOpen handler ignoring a ResetComplete
HandleSessionOpen_IgnoresResetComplete(s, payload, react) ==
  IF payload.key = ControlKeyChunk
  THEN LET r == HandleChunkReceived(s, UnpackChunk(payload.data), react)
       IN  IF r.ok THEN r.s
           ELSE Enter(r.s, ControlStateAwaitingResetCompleteLocalInitiated, react)
  ELSE IF payload.key = ControlKeyResetRequest
  THEN Enter(s, ControlStateAwaitingResetCompleteRemoteInitiated, react)
  ELSE IF payload.key = ControlKeyResetComplete
  THEN s
  ELSE Enter(s, ControlStateAwaitingResetCompleteLocalInitiated, react)

\* ControlHandlers.ControlStateSessionOpen
HandleSessionOpen(s, payload, react) ==
  IF payload.key = ControlKeyChunk
  THEN LET r == HandleChunkReceived(s, UnpackChunk(payload.data), react)
       IN  IF r.ok THEN r.s
           ELSE Enter(r.s, ControlStateAwaitingResetCompleteLocalInitiated, react)
  ELSE IF payload.key = ControlKeyResetRequest
  THEN Enter(s, ControlStateAwaitingResetCompleteRemoteInitiated, react)
  ELSE Enter(s, ControlStateAwaitingResetCompleteLocalInitiated, react)

\* _control.handle
Handle(s, payload, react) ==
  CASE s.st = ControlStateDisconnected -> s
    [] s.st = ControlStateAwaitingResetCompleteRemoteInitiated ->
         HandleRemoteInitiated(s, payload, react)
    [] s.st = ControlStateAwaitingResetCompleteLocalInitiated ->
         HandleLocalInitiated(s, payload, react)
    [] s.st = ControlStateSessionOpen -> HandleSessionOpen(s, payload, react)

(***************************************************************************)
(* Inputs                                                                  *)
(***************************************************************************)
\* ResetComplete values the remote may send: the local capabilities, ranges
\* above, below and around version 1, an inverted range, small and zero sizes
RemoteResetCompletes ==
  { << 1, 1, 3, 232, 3, 232 >>,
    << 2, 3, 3, 232, 3, 232 >>,
    << 0, 0, 3, 232, 3, 232 >>,
    << 2, 0, 3, 232, 3, 232 >>,
    << 0, 2, 0, 1, 0, 2 >>,
    << 1, 1, 255, 255, 3, 232 >>,
    << 1, 2, 0, 0, 0, 0 >> }

\* Chunk values the remote may send: the whole of "1", its first byte, its
\* terminator at offset 1, and a value too short to be valid
RemoteChunks ==
  { ChunkHeader(2, TRUE) \o << 49, 0 >>,
    ChunkHeader(2, TRUE) \o << 49 >>,
    ChunkHeader(1, FALSE) \o << 0 >>,
    ChunkHeader(1, TRUE) }

Inbound ==
  { Msg(ControlKeyResetComplete, d) : d \in RemoteResetCompletes }
    \cup { Msg(ControlKeyChunk, d) : d \in RemoteChunks }
    \cup { ResetRequestMsg, UnsupportedErrorMsg }

NoMsg == Msg("none", << >>)

Remove(seq, i) == SubSeq(seq, 1, i - 1) \o SubSeq(seq, i + 1, Len(seq))

(***************************************************************************)
(* The state after construction, and the handlers as actions.              *)
(***************************************************************************)
\* nothing on the wire
NoWire == [obj |-> 0, tx |-> 0, feed |-> << >>, got |-> << >>, restart |-> FALSE]

\* the event names of _isPostMessageEvent that carry the session's lifecycle
LifecycleEvents == { "postmessageconnected", "postmessagedisconnected" }

\* createHandlersList: pos = 0, handlers = []
EmptyHandlersList == [handlers |-> << >>, pos |-> 0]

\* no dispatch in progress
NoDispatch ==
  [ event |-> "none", start |-> << >>, invoked |-> << >>, removed |-> {},
    unvisited |-> {}, added |-> {}, immediate |-> << >>, synthetic |-> {},
    regs |-> 0 ]

\* the fields of Sender, ChunkReceiver and _control after construction
InitCore ==
  /\ controlQueue = << >>
  /\ objectQueue = << >>
  /\ currentMessageType = "none"
  /\ failureCount = 0
  /\ offsetBytes = 0
  /\ chunkPayloadSize = 0
  /\ outstanding = << >>
  /\ timers = << >>
  /\ state = ControlStateDisconnected
  /\ protocol = ZeroProtocol
  /\ utf8_json_string = << >>
  /\ total_size_bytes = 0
  /\ received_size_bytes = 0
  /\ isReady = FALSE
  /\ op = [name |-> "init", msg |-> NoMsg]
  /\ handed = << >>
  /\ emitted = << >>
  /\ interrupted = TRUE

Init ==
  /\ InitCore
  /\ chunkFails = 0
  /\ callbacks = 0
  /\ wire = NoWire
  /\ EVENTS = [e \in LifecycleEvents |-> EmptyHandlersList]
  /\ dispatch = NoDispatch

\* Pebble.postMessage(obj)
PostMessage ==
  /\ Len(objectQueue) < MaxObjQueue
  /\ \E obj \in Objects :
       /\ Becomes(SendObject(Cur, obj, FALSE))
       /\ op' = [name |-> "postMessage", msg |-> NoMsg]
  /\ UNCHANGED << isReady, chunkFails, callbacks, wire, busVars >>

\* the 'ready' listener; LowerTransport emits ready once
Ready ==
  /\ ~isReady
  /\ isReady' = TRUE
  /\ Becomes(Enter(Cur, ControlStateAwaitingResetCompleteLocalInitiated, FALSE))
  /\ op' = [name |-> "ready", msg |-> NoMsg]
  /\ UNCHANGED << chunkFails, callbacks, wire, busVars >>

\* the 'appmessage' listener
AppMessage ==
  /\ Len(controlQueue) < MaxCtlQueue
  /\ \E payload \in Inbound, react \in BOOLEAN :
       /\ Becomes(Handle(Cur, payload, react))
       /\ op' = [name |-> "appmessage", msg |-> payload]
  /\ UNCHANGED << isReady, chunkFails, callbacks, wire, busVars >>

\* LowerTransport runs the success callback of an outstanding send
SendSucceeded ==
  /\ \E i \in 1..Len(outstanding), react \in BOOLEAN :
       LET s == [Cur EXCEPT !.out = Remove(@, i)]
       IN  /\ Becomes(IF outstanding[i].kind = "control"
                      THEN ControlSuccess(s, react)
                      ELSE ChunkSuccess(s, react))
           /\ op' = [name |-> "success", msg |-> outstanding[i].msg]
  /\ UNCHANGED << isReady, chunkFails, callbacks, wire, busVars >>

\* LowerTransport runs the failure callback of an outstanding send
SendFailed ==
  /\ \E i \in 1..Len(outstanding), react \in BOOLEAN :
       LET s == [Cur EXCEPT !.out = Remove(@, i)]
       IN  /\ Becomes(IF outstanding[i].kind = "control"
                      THEN ControlFailure(s, react)
                      ELSE ChunkFailure(s, react))
           /\ op' = [name |-> "failure", msg |-> outstanding[i].msg]
  /\ UNCHANGED << isReady, chunkFails, callbacks, wire, busVars >>

\* a retry timer fires
TimerFires ==
  /\ \E i \in 1..Len(timers), react \in BOOLEAN :
       LET s == [Cur EXCEPT !.tm = Remove(@, i)]
       IN  /\ Becomes(IF timers[i] = "control"
                      THEN TrySendNextControl(s)
                      ELSE TrySendNextChunk(s, react))
           /\ op' = [name |-> "timer", msg |-> NoMsg]
  /\ UNCHANGED << isReady, chunkFails, callbacks, wire, busVars >>

Next ==
  \/ PostMessage
  \/ Ready
  \/ AppMessage
  \/ SendSucceeded
  \/ SendFailed
  \/ TimerFires

Spec == Init /\ [][Next]_vars

(***************************************************************************)
(* The Sender inside an open session: postMessage is called only while the *)
(* session is open, the remote completes the handshake, and chunkFails     *)
(* counts the failure callbacks of the chunk now in flight.                *)
(***************************************************************************)
\* a remote ResetComplete that leaves tx_chunk_size = 2
SenderResetComplete == Msg(ControlKeyResetComplete, <<0, 2, 0, 1, 0, 2>>)

\* Pebble.postMessage(obj) while the session is open
SenderPostMessage ==
  /\ state = ControlStateSessionOpen
  /\ Len(objectQueue) < MaxSendQueue
  /\ \E obj \in Objects :
       /\ Becomes(SendObject(Cur, obj, FALSE))
       /\ op' = [name |-> "postMessage", msg |-> NoMsg]
  /\ UNCHANGED << isReady, chunkFails, callbacks, wire, busVars >>

\* the 'appmessage' listener: the remote answers the ResetRequest
SenderAppMessage ==
  /\ state = ControlStateAwaitingResetCompleteLocalInitiated
  /\ Len(controlQueue) < MaxCtlQueue
  /\ Becomes(Handle(Cur, SenderResetComplete, FALSE))
  /\ op' = [name |-> "appmessage", msg |-> SenderResetComplete]
  /\ UNCHANGED << isReady, chunkFails, callbacks, wire, busVars >>

\* the success callback of an outstanding send runs
SucceededStep ==
  /\ \E i \in 1..Len(outstanding) :
       LET s == [Cur EXCEPT !.out = Remove(@, i)]
       IN  /\ Becomes(IF outstanding[i].kind = "control"
                      THEN ControlSuccess(s, FALSE)
                      ELSE ChunkSuccess(s, FALSE))
           /\ op' = [name |-> "success", msg |-> outstanding[i].msg]
           /\ chunkFails' = IF outstanding[i].kind = "control" THEN chunkFails ELSE 0
  /\ UNCHANGED << isReady, wire, busVars >>

\* the failure callback of an outstanding send runs
FailedStep ==
  /\ \E i \in 1..Len(outstanding) :
       LET s == [Cur EXCEPT !.out = Remove(@, i)]
       IN  /\ Becomes(IF outstanding[i].kind = "control"
                      THEN ControlFailure(s, FALSE)
                      ELSE ChunkFailure(s, FALSE))
           /\ op' = [name |-> "failure", msg |-> outstanding[i].msg]
           /\ chunkFails' = IF outstanding[i].kind = "control" THEN chunkFails
                            ELSE IF objectQueue' # objectQueue THEN 0
                            ELSE chunkFails + 1
  /\ UNCHANGED << isReady, wire, busVars >>

\* LowerTransport calls the success callback of an outstanding send
SenderSucceeded == SucceededStep /\ UNCHANGED callbacks

\* LowerTransport calls the failure callback of an outstanding send
SenderFailed == FailedStep /\ UNCHANGED callbacks

\* a retry timer fires
SenderTimer ==
  /\ \E i \in 1..Len(timers) :
       LET s == [Cur EXCEPT !.tm = Remove(@, i)]
       IN  /\ Becomes(IF timers[i] = "control"
                      THEN TrySendNextControl(s)
                      ELSE TrySendNextChunk(s, FALSE))
           /\ op' = [name |-> "timer", msg |-> NoMsg]
  /\ UNCHANGED << isReady, chunkFails, callbacks, wire, busVars >>

NextSend ==
  \/ Ready
  \/ SenderAppMessage
  \/ SenderPostMessage
  \/ SenderSucceeded
  \/ SenderFailed
  \/ SenderTimer

SpecSend == Init /\ [][NextSend]_vars

(***************************************************************************)
(* The Receiver inside an open session: the remote completes the handshake *)
(* and then sends Chunk values of every shape, in any order.               *)
(***************************************************************************)
\* a remote ResetComplete with the parameters of PROTOCOL
ReceiverResetComplete == Msg(ControlKeyResetComplete, ResetCompleteBytes)

\* chunk payloads: one or two bytes out of '1' and the terminator
ChunkPayloads ==
  { <<b>> : b \in {49, 0} } \cup { <<b, c>> : b \in {49, 0}, c \in {49, 0} }

\* Chunk values: every header up to MaxChunkN with every payload, and one
\* value too short to hold a payload
ReceiverChunks ==
  { ChunkHeader(n, f) \o d : n \in 0..MaxChunkN, f \in BOOLEAN, d \in ChunkPayloads }
    \cup { ChunkHeader(1, TRUE) }

\* the 'appmessage' listener: the remote answers the ResetRequest
ReceiverHandshake ==
  /\ state = ControlStateAwaitingResetCompleteLocalInitiated
  /\ Len(controlQueue) < MaxCtlQueue
  /\ Becomes(Handle(Cur, ReceiverResetComplete, FALSE))
  /\ op' = [name |-> "appmessage", msg |-> ReceiverResetComplete]
  /\ UNCHANGED << isReady, chunkFails, callbacks, wire, busVars >>

\* the 'appmessage' listener: a Chunk arrives in SessionOpen
ReceiverChunk ==
  /\ state = ControlStateSessionOpen
  /\ Len(controlQueue) < MaxCtlQueue
  /\ \E d \in ReceiverChunks :
       /\ Becomes(Handle(Cur, Msg(ControlKeyChunk, d), FALSE))
       /\ op' = [name |-> "appmessage", msg |-> Msg(ControlKeyChunk, d)]
  /\ UNCHANGED << isReady, chunkFails, callbacks, wire, busVars >>

NextReceive ==
  \/ Ready
  \/ ReceiverHandshake
  \/ ReceiverChunk
  \/ SenderSucceeded

SpecReceive == Init /\ [][NextReceive]_vars

(***************************************************************************)
(* A remote Sender and this Receiver: the remote runs the same Sender with *)
(* its own tx_chunk_size, every send of it succeeds, and its chunks arrive *)
(* here in order.  With restart the remote resets the session after some   *)
(* chunks (its ResetRequest pre-empts the object) and, once the session is *)
(* open again, sends the object again from offset 0.                       *)
(***************************************************************************)
\* the objects the remote posts: 2, 3 and 4 bytes with the terminator
WireObjects == { 1, 12, 21, 123 }

\* the remote Sender after construction, in an open session
PeerSender(tx) ==
  [ cq |-> << >>, oq |-> << >>, cur |-> "none", fc |-> 0, off |-> 0, cps |-> 0,
    out |-> << >>, tm |-> << >>, st |-> ControlStateSessionOpen,
    proto |-> [version |-> 1, tx_chunk_size |-> tx, rx_chunk_size |-> tx],
    buf |-> << >>, total |-> 0, recv |-> 0, handed |-> << >>, emitted |-> << >> ]

\* the messages the remote hands to its transport from s on, each send
\* answered by the success callback
RECURSIVE ChunksFrom(_)
ChunksFrom(s) ==
  IF s.out = << >> THEN << >>
  ELSE << s.out[1].msg >> \o ChunksFrom(ChunkSuccess([s EXCEPT !.out = << >>], FALSE))

\* the chunks of postMessage(obj) at the remote
SenderChunks(obj, tx) == ChunksFrom(SendObject(PeerSender(tx), obj, FALSE))

\* the remote posts an object; k of its chunks are sent before a restart
RemotePosts ==
  /\ wire = NoWire
  /\ state = ControlStateSessionOpen
  /\ \E obj \in WireObjects, tx \in 1..MaxTxChunk, restart \in BOOLEAN :
       LET chunks == SenderChunks(obj, tx)
       IN  \E k \in (IF restart THEN 1..(Len(chunks) - 1) ELSE {0}) :
             wire' = [ obj |-> obj,
                       tx |-> tx,
                       feed |-> IF restart
                                THEN SubSeq(chunks, 1, k)
                                       \o << ResetRequestMsg, ReceiverResetComplete >>
                                       \o chunks
                                ELSE chunks,
                       got |-> << >>,
                       restart |-> restart ]
  /\ UNCHANGED << coreVars, chunkFails, callbacks, busVars >>

\* the 'message' events among the dispatched events, as their data
RECURSIVE MessagesOf(_)
MessagesOf(events) ==
  IF events = << >> THEN << >>
  ELSE (IF Head(events).type = "message" THEN << Head(events).data >> ELSE << >>)
         \o MessagesOf(Tail(events))

\* the 'appmessage' listener takes the next message of the remote
Deliver ==
  /\ wire.feed # << >>
  /\ Len(controlQueue) < MaxCtlQueue
  /\ Becomes(Handle(Cur, Head(wire.feed), FALSE))
  /\ op' = [name |-> "appmessage", msg |-> Head(wire.feed)]
  /\ wire' = [wire EXCEPT !.feed = Tail(@), !.got = @ \o MessagesOf(emitted')]
  /\ UNCHANGED << isReady, chunkFails, callbacks, busVars >>

NextChunks ==
  \/ Ready
  \/ ReceiverHandshake
  \/ SenderSucceeded
  \/ RemotePosts
  \/ Deliver

SpecChunks == Init /\ [][NextChunks]_vars

(***************************************************************************)
(* The listener registry: the app registers and removes handlers of the    *)
(* lifecycle events at any time, also from inside a handler, while the     *)
(* remote opens and resets the session.  _callHandlersForEvent runs one    *)
(* handler per step; a handler list entry is a function together with the  *)
(* number of the on() call that pushed it, so that two entries of the same *)
(* function can be told apart.                                             *)
(***************************************************************************)
\* the functions the app registers
Functions == { "f", "g" }

\* createHandlersList.add
ListAdd(list, handler) == [list EXCEPT !.handlers = Append(@, handler)]

\* Array.prototype.indexOf on the functions of the list, counted from 1;
\* 0 when the function is not in the list
IndexOf(handlers, fn) ==
  IF \E i \in 1..Len(handlers) : handlers[i].fn = fn
  THEN CHOOSE i \in 1..Len(handlers) :
         /\ handlers[i].fn = fn
         /\ \A j \in 1..(i - 1) : handlers[j].fn # fn
  ELSE 0

\* createHandlersList.remove that leaves pos alone
ListRemove_KeepsPos(list, fn) ==
  LET idx == IndexOf(list.handlers, fn)
  IN  IF idx = 0 THEN list
      ELSE [ handlers |-> Remove(list.handlers, idx), pos |-> list.pos ]

\* createHandlersList.remove
ListRemove(list, fn) ==
  LET idx == IndexOf(list.handlers, fn)
  IN  IF idx = 0 THEN list
      ELSE [ handlers |-> Remove(list.handlers, idx),
             pos |-> IF idx - 1 < list.pos
                     THEN (IF list.pos - 1 > 0 THEN list.pos - 1 ELSE 0)
                     ELSE list.pos ]

\* createHandlersList.newIterator
NewIterator(list) == [list EXCEPT !.pos = 0]

\* on() calls the new handler at once for 'connected' only
OnCallsHandler_ConnectedOnly(event_name, control_state) ==
  event_name = "postmessageconnected" /\ control_state = ControlStateSessionOpen

\* the test of on(): the new handler is called at once
OnCallsHandler(event_name, control_state) ==
  \/ event_name = "postmessageconnected" /\ control_state = ControlStateSessionOpen
  \/ event_name = "postmessagedisconnected" /\ control_state # ControlStateSessionOpen

\* the app's code runs outside a dispatch or inside a handler that the
\* dispatch has called
AppRuns == dispatch.event = "none" \/ dispatch.invoked # << >>

\* what is remembered of a dispatch once other code has run after its end
AfterDispatch ==
  IF dispatch.event = "none" THEN [NoDispatch EXCEPT !.regs = dispatch.regs] ELSE dispatch

\* Pebble.addEventListener / on
On ==
  /\ AppRuns
  /\ dispatch.regs < MaxRegs
  /\ \E event_name \in LifecycleEvents, fn \in Functions :
       LET handler == [fn |-> fn, reg |-> dispatch.regs + 1]
       IN  /\ EVENTS' = [EVENTS EXCEPT ![event_name] = ListAdd(@, handler)]
           /\ dispatch' = [AfterDispatch EXCEPT
                             !.regs = @ + 1,
                             !.added = IF dispatch.event = event_name
                                       THEN @ \cup {handler} ELSE @,
                             !.immediate = IF OnCallsHandler(event_name, state)
                                           THEN << handler >> ELSE << >>,
                             !.synthetic = IF /\ OnCallsHandler(event_name, state)
                                              /\ dispatch.event = "postmessageconnected"
                                              /\ event_name = "postmessageconnected"
                                           THEN @ \cup {handler} ELSE @]
           /\ op' = [name |-> "on", msg |-> Msg(event_name, << >>)]
  /\ UNCHANGED << progVars, handed, emitted, interrupted, chunkFails, callbacks, wire >>

\* Pebble.removeEventListener / off
Off ==
  /\ AppRuns
  /\ \E event_name \in LifecycleEvents, fn \in Functions :
       LET idx == IndexOf(EVENTS[event_name].handlers, fn)
           gone == IF idx = 0 \/ dispatch.event # event_name THEN {}
                   ELSE { EVENTS[event_name].handlers[idx] }
       IN  /\ idx # 0
           /\ EVENTS' = [EVENTS EXCEPT ![event_name] = ListRemove(@, fn)]
           /\ dispatch' = [AfterDispatch EXCEPT
                             !.removed = @ \cup gone,
                             !.unvisited = @ \cup { h \in gone :
                                \A i \in 1..Len(dispatch.invoked) : dispatch.invoked[i] # h },
                             !.immediate = << >>]
           /\ op' = [name |-> "off", msg |-> Msg(event_name, << >>)]
  /\ UNCHANGED << progVars, handed, emitted, interrupted, chunkFails, callbacks, wire >>

\* the lifecycle event among the dispatched events, "none" without one
LifecycleEventOf(events) ==
  IF \E i \in 1..Len(events) : events[i].type \in LifecycleEvents
  THEN events[CHOOSE i \in 1..Len(events) : events[i].type \in LifecycleEvents].type
  ELSE "none"

\* the 'appmessage' listener: the remote completes the handshake or resets
\* the session; _callHandlersForEvent takes a new iterator of the list
BusAppMessage ==
  /\ dispatch.event = "none"
  /\ Len(controlQueue) < MaxCtlQueue
  /\ \E payload \in { ReceiverResetComplete, ResetRequestMsg } :
       /\ Becomes(Handle(Cur, payload, FALSE))
       /\ op' = [name |-> "appmessage", msg |-> payload]
  /\ LET event_name == LifecycleEventOf(emitted')
     IN  IF event_name = "none"
         THEN /\ dispatch' = AfterDispatch
              /\ UNCHANGED EVENTS
         ELSE /\ EVENTS' = [EVENTS EXCEPT ![event_name] = NewIterator(@)]
              /\ dispatch' = [AfterDispatch EXCEPT
                                !.event = event_name,
                                !.start = EVENTS[event_name].handlers]
  /\ UNCHANGED << isReady, chunkFails, callbacks, wire >>

\* _callHandlersForEvent: it.next() returns a handler, which is called
DispatchNext ==
  /\ dispatch.event # "none"
  /\ LET list == EVENTS[dispatch.event]
     IN  /\ list.pos < Len(list.handlers)
         /\ EVENTS' = [EVENTS EXCEPT ![dispatch.event].pos = @ + 1]
         /\ dispatch' = [dispatch EXCEPT
                           !.invoked = Append(@, list.handlers[list.pos + 1]),
                           !.immediate = << >>]
  /\ op' = [name |-> "handler", msg |-> Msg(dispatch.event, << >>)]
  /\ UNCHANGED << progVars, handed, emitted, interrupted, chunkFails, callbacks, wire >>

\* _callHandlersForEvent: it.next() returns undefined, the loop ends
DispatchEnd ==
  /\ dispatch.event # "none"
  /\ EVENTS[dispatch.event].pos >= Len(EVENTS[dispatch.event].handlers)
  /\ dispatch' = [dispatch EXCEPT !.event = "none", !.immediate = << >>]
  /\ op' = [name |-> "dispatched", msg |-> Msg(dispatch.event, << >>)]
  /\ UNCHANGED << progVars, handed, emitted, interrupted, EVENTS, chunkFails, callbacks, wire >>

\* 'ready' and the success callbacks run between dispatches
BusReady == dispatch.event = "none" /\ Ready

BusSucceeded == dispatch.event = "none" /\ SenderSucceeded

NextBus ==
  \/ BusReady
  \/ BusAppMessage
  \/ BusSucceeded
  \/ On
  \/ Off
  \/ DispatchNext
  \/ DispatchEnd

SpecBus == Init /\ [][NextBus]_vars

(***************************************************************************)
(* Progress of the Sender: the app posts one object at a time, before or   *)
(* after the handshake, the remote answers the ResetRequest once, with     *)
(* the parameters of PROTOCOL or advertising chunk sizes 0, and sends      *)
(* nothing else.  Every send gets its callback and every timer fires.      *)
(***************************************************************************)
\* the ResetComplete values of the remote
ProgressResetCompletes ==
  { ReceiverResetComplete, Msg(ControlKeyResetComplete, <<1, 2, 0, 0, 0, 0>>) }

\* Pebble.postMessage(obj) with nothing queued
ProgressPostMessage ==
  /\ objectQueue = << >>
  /\ \E obj \in Objects :
       /\ Becomes(SendObject(Cur, obj, FALSE))
       /\ op' = [name |-> "postMessage", msg |-> NoMsg]
  /\ UNCHANGED << isReady, chunkFails, callbacks, wire, busVars >>

\* the 'appmessage' listener: the remote answers the ResetRequest
ProgressAppMessage ==
  /\ state = ControlStateAwaitingResetCompleteLocalInitiated
  /\ Len(controlQueue) < MaxCtlQueue
  /\ \E payload \in ProgressResetCompletes :
       /\ Becomes(Handle(Cur, payload, FALSE))
       /\ op' = [name |-> "appmessage", msg |-> payload]
  /\ UNCHANGED << isReady, chunkFails, callbacks, wire, busVars >>

\* the callbacks of LowerTransport, counted: a success callback that
\* leaves every field as it was is a step all the same
ProgressSucceeded == SucceededStep /\ callbacks' = 1 - callbacks

ProgressFailed == FailedStep /\ callbacks' = 1 - callbacks

NextProgress ==
  \/ Ready
  \/ ProgressAppMessage
  \/ ProgressPostMessage
  \/ ProgressSucceeded
  \/ ProgressFailed
  \/ SenderTimer

\* every send of LowerTransport ends in one callback, every timer fires
SpecProgress ==
  /\ Init
  /\ [][NextProgress]_vars
  /\ WF_vars(ProgressSucceeded \/ ProgressFailed)
  /\ WF_vars(SenderTimer)

(***************************************************************************)
(* Observations used by the properties.                                    *)
(***************************************************************************)
\* how many events of a type the last handler dispatched
Count(seq, type) == Cardinality({ i \in 1..Len(seq) : seq[i].type = type })

\* the remote's ResetComplete value as section 6 of the spec lays it out
RemoteMin(d) == d[1]
RemoteMax(d) == d[2]
RemoteMaxTx(d) == d[3] * 256 + d[4]
RemoteMaxRx(d) == d[5] * 256 + d[6]

\* some version lies in both [RemoteMin, RemoteMax] and the local [1, 1]
RangesOverlap(d) ==
  \E v \in 0..255 : RemoteMin(d) <= v /\ v <= RemoteMax(d) /\ 1 <= v /\ v <= 1

\* the step is the appmessage handler run on a ResetComplete in from_state
ResetCompleteStep(from_state) ==
  /\ state = from_state
  /\ op'.name = "appmessage"
  /\ op'.msg.key = ControlKeyResetComplete

HasKey(queue, key) == \E i \in 1..Len(queue) : queue[i].key = key

(***************************************************************************)
(* C1: at most one LowerTransport send (control message or object chunk)   *)
(* is outstanding in every reachable state.                                *)
(***************************************************************************)
C1_AtMostOneOutstanding == Len(outstanding) <= 1

\* a retried send is outstanding while a control message and an object wait
C1_Witness ==
  /\ Len(outstanding) = 1
  /\ op.name = "timer"
  /\ Len(controlQueue) = MaxCtlQueue
  /\ Len(objectQueue) > 0

(***************************************************************************)
(* C2 as stated: current_kind is none exactly when no send is outstanding  *)
(* with LowerTransport.  It fails while a retry timer is pending.          *)
(***************************************************************************)
C2_NoneIffNoOutstanding ==
  (currentMessageType = "none") <=> (outstanding = << >>)

(***************************************************************************)
(* C2 amended: current_kind is none exactly when no send is outstanding    *)
(* and no retry timer is pending.                                          *)
(***************************************************************************)
C2_NoneIffIdle ==
  (currentMessageType = "none") <=> (outstanding = << >> /\ timers = << >>)

\* a control message waits for its retry timer: nothing is outstanding
C2_Witness ==
  /\ currentMessageType = "control"
  /\ outstanding = << >>
  /\ timers = << "control" >>
  /\ op.name = "failure"

(***************************************************************************)
(* C3: when a chunk is handed to LowerTransport controlQueue is empty, and *)
(* while an object is being sent and a control message waits, the next     *)
(* thing handed to LowerTransport is the head of controlQueue.             *)
(***************************************************************************)
C3_ControlPriority ==
  [][ /\ \A i \in 1..Len(handed') :
           handed'[i].kind = "object" => handed'[i].cq = 0
      /\ (currentMessageType = "object" /\ controlQueue # << >> /\ handed' # << >>)
           => (handed'[1].kind = "control" /\ handed'[1].msg = Head(controlQueue))
    ]_vars

\* the success callback of a chunk handed over a control message, the
\* partly sent object left in objectQueue
C3_Witness ==
  /\ op.name = "success"
  /\ op.msg.key = ControlKeyChunk
  /\ Len(handed) = 1
  /\ handed[1].kind = "control"
  /\ objectQueue # << >>

(***************************************************************************)
(* C4: outside SessionOpen the negotiated version, tx_chunk_size and       *)
(* rx_chunk_size are all 0.                                                *)
(***************************************************************************)
C4_ZeroOutsideSession ==
  state # ControlStateSessionOpen => protocol = ZeroProtocol

\* a session has just been left
C4_Witness ==
  /\ state # ControlStateSessionOpen
  /\ Count(emitted, "postmessagedisconnected") = 1
  /\ protocol = ZeroProtocol

(***************************************************************************)
(* C5 as stated: in SessionOpen version, tx_chunk_size and rx_chunk_size   *)
(* are all greater than 0.  A remote that advertises a size of 0 breaks it.*)
(***************************************************************************)
C5_PositiveInSession ==
  state = ControlStateSessionOpen =>
    (protocol.version > 0 /\ protocol.tx_chunk_size > 0 /\ protocol.rx_chunk_size > 0)

(***************************************************************************)
(* C6: a ResetComplete received while awaiting one is accepted iff the     *)
(* remote version range overlaps [1, 1]; accepted, the parameters are the  *)
(* minima (tx against the remote's rx, rx against the remote's tx);        *)
(* rejected, the parameters and the state stay as they were.               *)
(***************************************************************************)
C6_Negotiation ==
  [][ \A from_state \in { ControlStateAwaitingResetCompleteLocalInitiated,
                          ControlStateAwaitingResetCompleteRemoteInitiated } :
        ResetCompleteStep(from_state) =>
          LET d == op'.msg.data
          IN  IF RangesOverlap(d)
              THEN /\ state' = ControlStateSessionOpen
                   /\ protocol'.version = Min(1, RemoteMax(d))
                   /\ protocol'.tx_chunk_size = Min(1000, RemoteMaxRx(d))
                   /\ protocol'.rx_chunk_size = Min(1000, RemoteMaxTx(d))
              ELSE /\ state' = from_state
                   /\ protocol' = protocol
    ]_vars

\* a remote whose tx and rx sizes differ has been accepted
C6_Witness ==
  /\ op.name = "appmessage"
  /\ op.msg = Msg(ControlKeyResetComplete, << 0, 2, 0, 1, 0, 2 >>)
  /\ state = ControlStateSessionOpen
  /\ protocol = [version |-> 1, tx_chunk_size |-> 2, rx_chunk_size |-> 1]

(***************************************************************************)
(* C7: ready in Disconnected enters LI and enqueues one ResetRequest; an   *)
(* overlapping ResetComplete received in LI enqueues one ResetComplete     *)
(* with the local capabilities, enters SessionOpen and emits connected     *)
(* once; the ResetComplete is handed to LowerTransport only after the      *)
(* ResetRequest has left controlQueue.                                     *)
(***************************************************************************)
C7_Handshake ==
  [][ /\ (op'.name = "ready" /\ state = ControlStateDisconnected) =>
           /\ state' = ControlStateAwaitingResetCompleteLocalInitiated
           /\ controlQueue' = Append(controlQueue, Msg(ControlKeyResetRequest, << 0 >>))
           /\ (currentMessageType = "none" =>
                 handed' = << [kind |-> "control", cq |-> 1,
                               msg |-> Msg(ControlKeyResetRequest, << 0 >>)] >>)
      /\ (ResetCompleteStep(ControlStateAwaitingResetCompleteLocalInitiated)
            /\ RangesOverlap(op'.msg.data)) =>
           /\ state' = ControlStateSessionOpen
           /\ controlQueue' =
                Append(controlQueue,
                       Msg(ControlKeyResetComplete, << 1, 1, 3, 232, 3, 232 >>))
           /\ Count(emitted', "postmessageconnected") = 1
           /\ \A i \in 1..Len(handed') :
                handed'[i].msg.key = ControlKeyResetComplete =>
                  ~ HasKey(controlQueue, ControlKeyResetRequest)
    ]_vars

\* the handshake has completed and the local ResetComplete is on its way
C7_Witness ==
  /\ op.name = "appmessage"
  /\ op.msg.key = ControlKeyResetComplete
  /\ state = ControlStateSessionOpen
  /\ Len(handed) = 1
  /\ handed[1].msg = LocalResetComplete
  /\ Count(emitted, "postmessageconnected") = 1

(***************************************************************************)
(* C8: a ResetComplete received in LI whose version range does not overlap *)
(* enqueues one UnsupportedError, leaves Control in LI with parameters 0   *)
(* and emits no connected event.                                           *)
(***************************************************************************)
C8_VersionMismatch ==
  [][ (ResetCompleteStep(ControlStateAwaitingResetCompleteLocalInitiated)
         /\ ~ RangesOverlap(op'.msg.data)) =>
        /\ controlQueue' = Append(controlQueue, Msg(ControlKeyUnsupportedError, << 0 >>))
        /\ state' = ControlStateAwaitingResetCompleteLocalInitiated
        /\ protocol' = ZeroProtocol
        /\ Count(emitted', "postmessageconnected") = 0
    ]_vars

\* the remote offered versions 2..3 and UnsupportedError waits behind ResetRequest
C8_Witness ==
  /\ op.name = "appmessage"
  /\ op.msg = Msg(ControlKeyResetComplete, << 2, 3, 3, 232, 3, 232 >>)
  /\ state = ControlStateAwaitingResetCompleteLocalInitiated
  /\ controlQueue = << ResetRequestMsg, UnsupportedErrorMsg >>

(***************************************************************************)
(* C9 as stated: a ResetComplete received in SessionOpen changes nothing:  *)
(* Control stays in SessionOpen, the parameters stay, no control message   *)
(* is enqueued and disconnected is not emitted.                            *)
(***************************************************************************)
C9_ResetCompleteIgnored ==
  [][ ResetCompleteStep(ControlStateSessionOpen) =>
        /\ state' = ControlStateSessionOpen
        /\ protocol' = protocol
        /\ controlQueue' = controlQueue
        /\ Count(emitted', "postmessagedisconnected") = 0
    ]_vars

(***************************************************************************)
(* C9 amended: a ResetComplete received in SessionOpen is handled like any *)
(* other unexpected key: Control enters LI, the parameters are reset to 0, *)
(* one ResetRequest is enqueued and disconnected is emitted once.          *)
(***************************************************************************)
C9_ResetCompleteRenegotiates ==
  [][ ResetCompleteStep(ControlStateSessionOpen) =>
        /\ state' = ControlStateAwaitingResetCompleteLocalInitiated
        /\ protocol' = ZeroProtocol
        /\ controlQueue' = Append(controlQueue, Msg(ControlKeyResetRequest, << 0 >>))
        /\ Count(emitted', "postmessagedisconnected") = 1
    ]_vars

\* a ResetComplete has just closed a session
C9_Witness ==
  /\ op.name = "appmessage"
  /\ op.msg.key = ControlKeyResetComplete
  /\ state = ControlStateAwaitingResetCompleteLocalInitiated
  /\ Count(emitted, "postmessagedisconnected") = 1

(***************************************************************************)
(* C10 as stated: the fourth failure of a control message removes it from  *)
(* controlQueue, clears the in-flight fields or starts the next queued     *)
(* item, and leaves Control in Disconnected with parameters 0.  The        *)
(* transition to Disconnected stores the remote-initiated state instead.   *)
(***************************************************************************)
C10_ControlExhaustion ==
  [][ (op'.name = "failure" /\ currentMessageType = "control"
         /\ failureCount = RetryLimit) =>
        /\ controlQueue' = Tail(controlQueue)
        /\ failureCount' \in {0, 1}
        /\ currentMessageType' =
             (IF controlQueue' # << >> THEN "control"
              ELSE IF objectQueue' # << >> THEN "object" ELSE "none")
        /\ protocol' = ZeroProtocol
        /\ state' = ControlStateDisconnected
    ]_vars

(***************************************************************************)
(* C11  A chunk is retried until it has failed RetryLimit times in a row   *)
(*      and the count starts again for every chunk: whenever a transport   *)
(*      failure of a chunk abandons the object ('postmessageerror'), that  *)
(*      chunk itself had already failed RetryLimit times.                  *)
(***************************************************************************)
C11_PerChunkRetries ==
  [][ ( /\ op'.name = "failure"
        /\ op'.msg.key = ControlKeyChunk
        /\ Count(emitted', "postmessageerror") > 0 )
      => chunkFails = RetryLimit ]_vars

\* a is an initial part of b
IsPrefix(a, b) == Len(a) <= Len(b) /\ SubSeq(b, 1, Len(a)) = a

\* a queue changes only by losing its head and by gaining entries at its end
QueueFifo(q, q2) == IsPrefix(q, q2) \/ (q # << >> /\ IsPrefix(Tail(q), q2))

\* the chunk is the part of data its header names
ChunkOf(chunk, data) ==
  /\ chunk # Undefined
  /\ Len(chunk.data) > 0
  /\ IF chunk.is_first
     THEN chunk.n = Len(data) /\ chunk.data = SubSeq(data, 1, Len(chunk.data))
     ELSE chunk.data = SubSeq(data, chunk.n + 1, chunk.n + Len(chunk.data))

(***************************************************************************)
(* C20  FIFO: both queues change only by losing their head and gaining     *)
(*      entries at their end; a control message handed to LowerTransport   *)
(*      is the head of controlQueue; a chunk handed to LowerTransport is   *)
(*      cut from the head of objectQueue, so no chunk of a later object is *)
(*      sent before every earlier object has left the queue.               *)
(***************************************************************************)
C20_Fifo ==
  [][ /\ QueueFifo(controlQueue, controlQueue')
      /\ QueueFifo(objectQueue, objectQueue')
      /\ \A i \in 1..Len(handed') :
           IF handed'[i].kind = "control"
           THEN controlQueue' # << >> /\ handed'[i].msg = Head(controlQueue')
           ELSE /\ objectQueue' # << >>
                /\ handed'[i].msg.key = ControlKeyChunk
                /\ ChunkOf(UnpackChunk(handed'[i].msg.data), Head(objectQueue').data) ]_vars

\* a later chunk of the first object is handed over while a different
\* object waits behind it
C20_Witness ==
  /\ Len(objectQueue) = 2
  /\ objectQueue[1].obj # objectQueue[2].obj
  /\ offsetBytes > 0
  /\ Len(handed) = 1
  /\ handed[1].kind = "object"

(***************************************************************************)
(* C19  'postmessageconnected' is dispatched, once, in exactly the steps   *)
(*      in which Control enters SessionOpen, and 'postmessagedisconnected' *)
(*      is dispatched, once, in exactly the steps in which Control leaves  *)
(*      SessionOpen; as Control starts outside SessionOpen the two events  *)
(*      alternate, connected first.                                        *)
(***************************************************************************)
C19_Lifecycle ==
  [][ /\ Count(emitted', "postmessageconnected") =
           IF state # ControlStateSessionOpen /\ state' = ControlStateSessionOpen
           THEN 1 ELSE 0
      /\ Count(emitted', "postmessagedisconnected") =
           IF state = ControlStateSessionOpen /\ state' # ControlStateSessionOpen
           THEN 1 ELSE 0 ]_vars

\* the session was open and the last handler left it
C19_Witness ==
  /\ state # ControlStateSessionOpen
  /\ Count(emitted, "postmessagedisconnected") = 1

\* spec section 4.3: the chunk breaks the sequence the Receiver expects
SequenceViolation(chunk) ==
  \/ chunk.is_first # (utf8_json_string = << >>)
  \/ /\ ~chunk.is_first
     /\ \/ chunk.n # received_size_bytes
        \/ received_size_bytes + Len(chunk.data) > total_size_bytes

\* the step is the 'appmessage' listener taking, in SessionOpen, a Chunk
\* that breaks the sequence
ViolationStep ==
  /\ state = ControlStateSessionOpen
  /\ op'.name = "appmessage"
  /\ op'.msg.key = ControlKeyChunk
  /\ UnpackChunk(op'.msg.data) # Undefined
  /\ SequenceViolation(UnpackChunk(op'.msg.data))

C13_ViolationDropsPartial ==
  [][ ViolationStep => utf8_json_string' = << >> ]_vars

(***************************************************************************)
(* C14  Restart: when the remote has sent some chunks of an object, resets *)
(*      and sends the object again from offset 0, this Receiver, still     *)
(*      holding the earlier chunks, starts again on the new first chunk    *)
(*      and dispatches exactly one 'message', with the value posted.       *)
(***************************************************************************)
C14_RestartResync ==
  (wire.restart /\ wire.feed = << >>) => wire.got = << << wire.obj >> >>

\* all messages of the wire, as one sequence of payload bytes
RECURSIVE Payloads(_)
Payloads(msgs) ==
  IF msgs = << >> THEN << >>
  ELSE UnpackChunk(Head(msgs).data).data \o Payloads(Tail(msgs))

(***************************************************************************)
(* C15  Round trip: the chunks the Sender cuts from an object, for every   *)
(*      tx_chunk_size from 1 on, taken in order by a Receiver with an      *)
(*      empty buffer give exactly one 'message', dispatched with the last  *)
(*      chunk; its value is the value posted and the parse of the chunk    *)
(*      payloads without the final 0, and the buffer is empty afterwards.  *)
(***************************************************************************)
C15_RoundTrip ==
  (wire.obj # 0 /\ ~wire.restart) =>
    /\ state = ControlStateSessionOpen
    /\ wire.feed # << >> => wire.got = << >>
    /\ wire.feed = << >> =>
         /\ wire.got = << << wire.obj >> >>
         /\ utf8_json_string = << >>
         /\ LET bytes == Payloads(SenderChunks(wire.obj, wire.tx))
            IN  /\ bytes[Len(bytes)] = 0
                /\ wire.got = << JsonParse(SubSeq(bytes, 1, Len(bytes) - 1)) >>

\* an object of three chunks has arrived whole
C15_Witness ==
  /\ wire.obj = 123
  /\ wire.tx = 1
  /\ ~wire.restart
  /\ wire.feed = << >>
  /\ wire.got = << << 123 >> >>
  /\ received_size_bytes = 4
  /\ Len(op.msg.data) = 5

(***************************************************************************)
(* C16  A handler added to an event's list while that event is being       *)
(*      dispatched is not invoked by the dispatch in progress.             *)
(***************************************************************************)
C16_AddedNotInvoked ==
  \A i \in 1..Len(dispatch.invoked) : dispatch.invoked[i] \notin dispatch.added

\* the entries of seq that are in set, in their order
Restrict(seq, set) == SelectSeq(seq, LAMBDA h : h \in set)

\* the entries of a sequence as a set
Range(seq) == { seq[i] : i \in 1..Len(seq) }

(***************************************************************************)
(* C17  In every dispatch, whatever the handlers remove: an entry removed  *)
(*      before its visit is not invoked; no entry is invoked twice; the    *)
(*      entries of the list at the start of the dispatch that are never    *)
(*      removed are invoked in insertion order, and when the dispatch ends *)
(*      each of them has been invoked.                                     *)
(***************************************************************************)
C17_RemoveDuringDispatch ==
  LET kept == Range(dispatch.start) \ dispatch.removed
  IN  /\ Range(dispatch.invoked) \cap dispatch.unvisited = {}
      /\ Cardinality(Range(dispatch.invoked)) = Len(dispatch.invoked)
      /\ IsPrefix(Restrict(dispatch.invoked, kept), Restrict(dispatch.start, kept))
      /\ dispatch.event = "none" =>
           Restrict(dispatch.invoked, kept) = Restrict(dispatch.start, kept)

\* a dispatch over three entries has ended in which the first handler
\* removed the second entry and the third entry was still invoked
C17_Witness ==
  /\ dispatch.event = "none"
  /\ Len(dispatch.start) = 3
  /\ dispatch.unvisited = { dispatch.start[2] }
  /\ dispatch.invoked = << dispatch.start[1], dispatch.start[3] >>

(***************************************************************************)
(* C18  on() calls the new handler at once exactly when it registers for   *)
(*      'postmessageconnected' while Control is in SessionOpen or for      *)
(*      'postmessagedisconnected' while Control is in any other state.     *)
(***************************************************************************)
C18_LateSubscriber ==
  [][ op'.name = "on" =>
        ( dispatch'.immediate # << >> <=>
            \/ /\ op'.msg.key = "postmessageconnected"
               /\ state = ControlStateSessionOpen
            \/ /\ op'.msg.key = "postmessagedisconnected"
               /\ state # ControlStateSessionOpen ) ]_vars

\* a disconnected handler registered before 'ready' has been called at once
C18_Witness ==
  /\ state = ControlStateDisconnected
  /\ op.name = "on"
  /\ op.msg.key = "postmessagedisconnected"
  /\ dispatch.immediate # << >>

(***************************************************************************)
(* C21  Between chunk deliveries received_size_bytes is the length of the  *)
(*      reassembly buffer.                                                 *)
(***************************************************************************)
C21_ReceivedIsBufferLength == received_size_bytes = Len(utf8_json_string)

\* b is a final part of a
IsSuffix(b, a) ==
  Len(b) <= Len(a) /\ SubSeq(a, Len(a) - Len(b) + 1, Len(a)) = b

\* ceil(a / b)
CeilDiv(a, b) == (a + b - 1) \div b

(***************************************************************************)
(* C22  Chunk layout: an object of L bytes (terminator included) sent with *)
(*      tx_chunk_size T, every send succeeding, goes out in ceil(L/T)      *)
(*      chunks; the first has is_first and n = L, the k-th has n =         *)
(*      (k-1)*T without is_first, and every payload has min(T, L - offset) *)
(*      bytes.  What is still on the wire is the rest of these chunks.     *)
(***************************************************************************)
C22_ChunkLayout ==
  wire.obj # 0 =>
    LET chunks == SenderChunks(wire.obj, wire.tx)
        L == Len(Stringify(wire.obj)) + 1
        T == wire.tx
    IN  /\ Len(chunks) = CeilDiv(L, T)
        /\ \A k \in 1..Len(chunks) :
             LET c == UnpackChunk(chunks[k].data)
             IN  /\ chunks[k].key = ControlKeyChunk
                 /\ c # Undefined
                 /\ c.is_first = (k = 1)
                 /\ c.n = IF k = 1 THEN L ELSE (k - 1) * T
                 /\ Len(c.data) = Min(T, L - (k - 1) * T)
        /\ ~wire.restart => IsSuffix(wire.feed, chunks)

\* an object one byte longer than tx_chunk_size is on the wire in two
\* chunks
C22_Witness ==
  /\ wire.obj = 123
  /\ wire.tx = 3
  /\ ~wire.restart
  /\ Len(wire.feed) = 2
  /\ UnpackChunk(wire.feed[2].data).n = 3

\* the step runs _trySendNextChunk for an object in progress: an object
\* retry timer fires, or a chunk that is not the object's last succeeds
NextChunkStep ==
  /\ currentMessageType = "object"
  /\ \/ op'.name = "timer"
     \/ /\ op'.name = "success"
        /\ op'.msg.key = ControlKeyChunk
        /\ offsetBytes + chunkPayloadSize # Len(Head(objectQueue).data)

(***************************************************************************)
(* C23  Pre-emption: when the next chunk of the object in progress is due  *)
(*      and a control message is queued, the Sender clears its in-flight   *)
(*      state (offset 0, no failures), hands the head of controlQueue to   *)
(*      LowerTransport and leaves objectQueue as it is; and whenever a     *)
(*      chunk is handed over without an object having been in progress, it *)
(*      is a first chunk: is_first, n = total length, payload from         *)
(*      offset 0.                                                          *)
(***************************************************************************)
C23_PreemptionRestart ==
  [][ /\ (NextChunkStep /\ controlQueue # << >>) =>
           /\ handed' = << [kind |-> "control", msg |-> Head(controlQueue),
                            cq |-> Len(controlQueue)] >>
           /\ currentMessageType' = "control"
           /\ offsetBytes' = 0
           /\ failureCount' = 0
           /\ objectQueue' = objectQueue
           /\ controlQueue' = controlQueue
      /\ \A i \in 1..Len(handed') :
           (handed'[i].kind = "object" /\ currentMessageType # "object") =>
              LET data == Head(objectQueue').data
                  chunk == handed'[i].msg.data
              IN  chunk = ChunkHeader(Len(data), TRUE)
                            \o SubSeq(data, 1, Len(chunk) - 4) ]_vars

\* the first chunk of a longer object has succeeded and, a control message
\* being queued, the control message was handed over in its place
C23_Witness ==
  /\ op.name = "success"
  /\ op.msg.key = ControlKeyChunk
  /\ objectQueue # << >>
  /\ op.msg.data = ChunkHeader(Len(Head(objectQueue).data), TRUE)
                     \o SubSeq(Head(objectQueue).data, 1, Len(op.msg.data) - 4)
  /\ 0 < Len(op.msg.data) - 4
  /\ Len(op.msg.data) - 4 < Len(Head(objectQueue).data)
  /\ currentMessageType = "control"
  /\ offsetBytes = 0
  /\ Len(handed) = 1
  /\ handed[1].kind = "control"

\* how many messages of a key a queue holds
CountKey(queue, key) == Cardinality({ i \in 1..Len(queue) : queue[i].key = key })

(***************************************************************************)
(* C24  LI is idempotent: a ResetRequest received in LI enqueues nothing   *)
(*      and leaves Control in LI with parameters 0; entering LI from LI    *)
(*      enqueues nothing either and leaves state and parameters as they    *)
(*      are; a step enqueues a ResetRequest, and then one only, when it    *)
(*      takes Control into LI from another state.                          *)
(***************************************************************************)
C24_LocalInitiatedIdempotent ==
  [][ /\ ( /\ state = ControlStateAwaitingResetCompleteLocalInitiated
           /\ op'.name = "appmessage"
           /\ op'.msg.key = ControlKeyResetRequest ) =>
             /\ controlQueue' = controlQueue
             /\ handed' = << >>
             /\ state' = ControlStateAwaitingResetCompleteLocalInitiated
             /\ protocol' = ZeroProtocol
      /\ state = ControlStateAwaitingResetCompleteLocalInitiated =>
           LET s == Enter(Cur, ControlStateAwaitingResetCompleteLocalInitiated, FALSE)
           IN  /\ s.cq = controlQueue
               /\ s.handed = << >>
               /\ s.emitted = << >>
               /\ s.st = ControlStateAwaitingResetCompleteLocalInitiated
               /\ s.proto = ZeroProtocol
               /\ protocol = ZeroProtocol
      /\ CountKey(controlQueue', ControlKeyResetRequest)
            > CountKey(controlQueue, ControlKeyResetRequest) =>
           /\ state # ControlStateAwaitingResetCompleteLocalInitiated
           /\ state' = ControlStateAwaitingResetCompleteLocalInitiated
           /\ CountKey(controlQueue', ControlKeyResetRequest)
                = CountKey(controlQueue, ControlKeyResetRequest) + 1 ]_vars

\* a ResetRequest has been received in LI while the own ResetRequest is
\* still queued
C24_Witness ==
  /\ state = ControlStateAwaitingResetCompleteLocalInitiated
  /\ op.name = "appmessage"
  /\ op.msg.key = ControlKeyResetRequest
  /\ CountKey(controlQueue, ControlKeyResetRequest) = 1

(***************************************************************************)
(* C25  A first chunk with n = 0 taken in SessionOpen with an empty buffer *)
(*      is a complete message that is dropped: no 'message' is dispatched, *)
(*      no violation is reported (Control stays in SessionOpen) and the    *)
(*      buffer is empty afterwards.                                        *)
(***************************************************************************)
C25_EmptyObjectDropped ==
  [][ ( /\ state = ControlStateSessionOpen
        /\ utf8_json_string = << >>
        /\ op'.name = "appmessage"
        /\ op'.msg.key = ControlKeyChunk
        /\ UnpackChunk(op'.msg.data) # Undefined
        /\ UnpackChunk(op'.msg.data).is_first
        /\ UnpackChunk(op'.msg.data).n = 0 ) =>
          /\ Count(emitted', "message") = 0
          /\ state' = ControlStateSessionOpen
          /\ utf8_json_string' = << >> ]_vars

(***************************************************************************)
(* C26  Chunks never straddle sessions: a chunk is handed to               *)
(*      LowerTransport only with Control in SessionOpen, and a             *)
(*      continuation chunk only when the session has been open without a   *)
(*      break since a first chunk was last handed over; after a break the  *)
(*      next chunk is a first chunk.                                       *)
(***************************************************************************)
C26_NoStraddle ==
  [][ \A i \in 1..Len(handed') :
        handed'[i].kind = "object" =>
          /\ state' = ControlStateSessionOpen
          /\ handed'[i].msg.data[4] < 128 =>
               /\ ~interrupted
               /\ state = ControlStateSessionOpen ]_vars

\* the session was closed and opened again while an object was in
\* progress, and the object has started again with a first chunk
C26_Witness ==
  /\ Len(handed) = 1
  /\ handed[1].kind = "object"
  /\ handed[1].msg.data[4] >= 128
  /\ op.name = "success"
  /\ op.msg = LocalResetComplete
  /\ state = ControlStateSessionOpen
  /\ protocol.tx_chunk_size = 2
  /\ Head(objectQueue).obj = 12

(***************************************************************************)
(* C27  Send progress: when every send gets a callback, every retry timer  *)
(*      fires and finitely many control messages are enqueued, an object   *)
(*      accepted by postMessage eventually leaves objectQueue, whatever    *)
(*      tx_chunk_size the handshake has set and whether or not the session *)
(*      is open.                                                           *)
(***************************************************************************)
C27_SendProgress == (objectQueue # << >>) ~> (objectQueue = << >>)

(***************************************************************************)
(* C28  For one entry of Control into SessionOpen every handler registered *)
(*      for 'postmessageconnected' is invoked at most once, counting the   *)
(*      calls of the dispatch and the call on() makes at once, also for a  *)
(*      handler registered by a connected handler during the dispatch.     *)
(***************************************************************************)
C28_ConnectedAtMostOnce ==
  dispatch.event = "postmessageconnected" =>
    \A i \in 1..Len(dispatch.invoked) :
      /\ dispatch.invoked[i] \notin dispatch.synthetic
      /\ \A j \in 1..Len(dispatch.invoked) : dispatch.invoked[j] = dispatch.invoked[i] => j = i

=============================================================================
